---- MODULE Spec2Model ----
(***************************************************************************)
(* NadekoConnector: the capability-token pipeline of authmanager.js and    *)
(* utils.js.  keys.json is the Revocation Store; createAuthKey issues a    *)
(* credential, checkAuthKey validates one, handleEndpoint orchestrates a   *)
(* request.  Every async function is cut at its await points, so that the  *)
(* interleavings of the Node.js event loop are the interleavings of the    *)
(* actions below.                                                          *)
(***************************************************************************)
EXTENDS Integers, Sequences, FiniteSets, TLC

\* ------------------------------------------------------------------ bounds
\* Number of cryptr.encrypt calls (fresh IVs) a behaviour may make.
MaxKeys == 2

\* Largest xp calcLevel is called with.
MaxXp == 150

\* ------------------------------------------------------------- JS values
\* The JavaScript value undefined (a missing argument or property).
undefined == "<undefined>"

\* The object {}.
EmptyObject == [k \in {} |-> TRUE]

\* !!v for the values a guildId argument can take (undefined or a string).
truthy(v) == v # undefined /\ v # ""

\* obj[k] of a JavaScript object: undefined when obj has no such key.
Prop(obj, k) == IF k \in DOMAIN obj THEN obj[k] ELSE undefined

\* Array.prototype.includes.
includes(arr, x) == \E i \in 1..Len(arr) : arr[i] = x

\* Array.prototype.push.
push(arr, x) == Append(arr, x)

\* ------------------------------------------------------- utils.js envelopes
\* utils.success(data): data, marked as a success.
success(data) ==
    [k \in DOMAIN data \cup {"success"} |->
        IF k = "success" THEN TRUE ELSE data[k]]

\* failure without the generic message.
failureNoDefault(data) ==
    [k \in DOMAIN data \cup {"success"} |->
        IF k = "success" THEN FALSE ELSE data[k]]

\* utils.failure(data): data, marked as a failure, with the generic message
\* when it carries none.
failure(data) ==
    [k \in DOMAIN data \cup {"error", "success"} |->
        IF k = "success" THEN FALSE
        ELSE IF k = "error"
             THEN (IF "error" \in DOMAIN data /\ data["error"] # ""
                   THEN data["error"] ELSE "An error occured.")
             ELSE data[k]]

\* ------------------------------------------------------- utils.calcLevel
\* The length of the array the loop of calcLevel runs over.
LevelCap == 1000

\* The loop of calcLevel from index i on: gap is set, a full gap is taken off
\* xp and the level raised, and the loop ends when what is left is below gap.
RECURSIVE calcLevelLoop(_, _, _, _)
calcLevelLoop(i, xp, lvl, gap) ==
    IF i = LevelCap
    THEN [xp |-> xp, lvl |-> lvl, gap |-> gap]
    ELSE LET g == 36 + (9 * i)
             taken == xp >= g
             x == IF taken THEN xp - g ELSE xp
             l == IF taken THEN lvl + 1 ELSE lvl
         IN  IF x < g THEN [xp |-> x, lvl |-> l, gap |-> g]
             ELSE calcLevelLoop(i + 1, x, l, g)

\* utils.calcLevel(xp).
calcLevel(xp) ==
    LET end == calcLevelLoop(0, xp, 0, 0)
    IN  success([level |-> end.lvl, currentLevelXp |-> end.xp,
                 nextLevelXp |-> end.gap])

\* ------------------------------------------------- json-bigint and cryptr
\* jsonbs.stringify({ userId: userId, guildId: guildId, endpoints: endpoints }):
\* the JSON text, as the sequence of its members in insertion order; a member
\* whose value is undefined is left out of the text.
stringify(userId, guildId, endpoints) ==
    <<[name |-> "userId", value |-> userId]>>
    \o (IF guildId = undefined THEN <<>>
        ELSE <<[name |-> "guildId", value |-> guildId]>>)
    \o <<[name |-> "endpoints", value |-> endpoints]>>

\* jsonbs.parse: the object whose keys are the members of the text.
parse(text) ==
    [k \in {text[i].name : i \in 1..Len(text)} |->
        (CHOOSE m \in {text[i] : i \in 1..Len(text)} : m.name = k).value]

\* cryptr.encrypt: the ciphertext of `text` under the configured password and
\* a fresh random IV.  iv = 0 is kept for strings that are no ciphertext.
encrypt(text, iv) == [iv |-> iv, text |-> text]

\* A string that is no ciphertext of the configured password.
Garbage == [iv |-> 0, text |-> <<>>]

\* cryptr.decrypt throws on anything that is no ciphertext.
decryptThrows(key) == key.iv = 0
decrypt(key) == key.text

\* -------------------------------------------------------- keys.json (fs)
\* fs.writeFileSync(path, content): okay = FALSE is the call throwing (the
\* file cannot be opened for writing), which leaves the file as it was.
writeFileSync(file, content, okay) ==
    IF okay THEN [exists |-> TRUE, keys |-> content] ELSE file

WriteError == "EACCES: permission denied, open 'keys.json'"

\* utils.readJson: throws "File not found." when the file does not exist.
readJsonThrows(file) == ~file.exists
readJson(file) == file.keys

\* addAuthKey writing a list of the new key alone.
addAuthKeyOverwrites(key, file, okay) ==
    LET newAuthKeys == <<key>>
    IN  [file   |-> writeFileSync(file, newAuthKeys, okay),
         result |-> IF okay THEN success(EmptyObject)
                    ELSE failure([error |-> WriteError])]

\* addAuthKey pushing the key without the includes test.
addAuthKeyAlwaysPushes(key, file, okay) ==
    LET existingAuthKeys == IF file.exists THEN readJson(file) ELSE <<>>
        newAuthKeys == push(existingAuthKeys, key)
    IN  [file   |-> writeFileSync(file, newAuthKeys, okay),
         result |-> IF okay THEN success(EmptyObject)
                    ELSE failure([error |-> WriteError])]

\* utils.addAuthKey(key): the file after the call and the envelope returned.
addAuthKey(key, file, okay) ==
    LET existingAuthKeys == IF file.exists THEN readJson(file) ELSE <<>>
        newAuthKeys == IF ~includes(existingAuthKeys, key)
                       THEN push(existingAuthKeys, key)
                       ELSE existingAuthKeys
    IN  [file   |-> writeFileSync(file, newAuthKeys, okay),
         result |-> IF okay THEN success(EmptyObject)
                    ELSE failure([error |-> WriteError])]

\* deleteAuthKeys rewriting the list it finds instead of an empty one.
deleteAuthKeysFileKeepsKeys(file, okay) ==
    LET existingAuthKeys == IF file.exists THEN readJson(file) ELSE <<>>
    IN  writeFileSync(file, existingAuthKeys, okay)

\* utils.deleteAuthKeys(): rewrites keys.json as the empty list.
deleteAuthKeysFile(file, okay) ==
    LET existingAuthKeys == <<>>
    IN  writeFileSync(file, existingAuthKeys, okay)

\* ---------------------------------------------------------- checkAuthKey
\* The checks of checkAuthKey without the guild comparison.
checkAuthKeyScopeNoGuild(data, endpoint, guildId) ==
    IF ~includes(data.endpoints, endpoint)
    THEN failure([error |-> "Endpoint not allowed by this key."])
    ELSE success(EmptyObject)

\* The checks of checkAuthKey without the first test on the endpoint.
checkAuthKeyScopeNoEndpoint(data, endpoint, guildId) ==
    IF includes(data.endpoints, endpoint)
       /\ truthy(guildId) /\ Prop(data, "guildId") # guildId
    THEN failure([error |-> "Guild not allowed by this key."])
    ELSE success(EmptyObject)

\* The scope check and the guild check of checkAuthKey on the payload.
checkAuthKeyScope(data, endpoint, guildId) ==
    IF ~includes(data.endpoints, endpoint)
    THEN failure([error |-> "Endpoint not allowed by this key."])
    ELSE IF truthy(guildId) /\ Prop(data, "guildId") # guildId
         THEN failure([error |-> "Guild not allowed by this key."])
         ELSE success(EmptyObject)

\* A checkAuthKey call that has not been made.
IdleCheck ==
    [pc |-> "idle", key |-> Garbage, endpoint |-> "", guildId |-> undefined,
     existingKeys |-> <<>>, data |-> EmptyObject, result |-> EmptyObject]

\* checkAuthKey returning: its locals go out of scope, the arguments and the
\* envelope are what the caller is left with.
checkAuthKeyReturn(c, result) ==
    [IdleCheck EXCEPT !.pc = "done", !.key = c.key, !.endpoint = c.endpoint,
                      !.guildId = c.guildId, !.result = result]

\* checkAuthKey(key, endpoint, guildId) up to its first await: the store is
\* read synchronously, in the call itself.
checkAuthKeyCall(key, endpoint, guildId, file) ==
    LET c == [IdleCheck EXCEPT !.key = key, !.endpoint = endpoint,
                               !.guildId = guildId]
    IN  IF readJsonThrows(file)
        THEN checkAuthKeyReturn(c, failure([error |-> "File not found."]))
        ELSE [c EXCEPT !.pc = "awaitKeys", !.existingKeys = readJson(file)]

\* The message cryptr.decrypt throws with.
DecryptError == "Unsupported state or unable to authenticate data"

\* checkAuthKey from one await to the next (or to its return).
checkAuthKeyResume(c) ==
    IF c.pc = "awaitKeys"
    THEN IF ~includes(c.existingKeys, c.key)
         THEN checkAuthKeyReturn(c, failure([error |-> "Invalid key."]))
         ELSE IF decryptThrows(c.key)
              THEN checkAuthKeyReturn(c, failure([error |-> DecryptError]))
              ELSE [c EXCEPT !.pc = "awaitParse",
                             !.data = parse(decrypt(c.key))]
    ELSE checkAuthKeyReturn(c,
            checkAuthKeyScope(c.data, c.endpoint, c.guildId))

\* ------------------------------------------- the schema and checkProperties
\* utils.getRequiredKeys(endpoint).
getRequiredKeys(endpoint) ==
    CASE endpoint \in {"getBotInfo", "getTables"} ->
            success([keys |-> <<>>])
      [] endpoint = "getFields" ->
            success([keys |-> <<"table">>])
      [] endpoint \in {"getBalance", "getGlobalXp"} ->
            success([keys |-> <<"userId">>])
      [] endpoint = "setBalance" ->
            success([keys |-> <<"userId", "balance">>])
      [] endpoint = "createTransaction" ->
            success([keys |-> <<"userId", "amount", "reason">>])
      [] endpoint = "getGuildXp" ->
            success([keys |-> <<"userId", "guildId">>])
      [] endpoint = "setGuildXp" ->
            success([keys |-> <<"userId", "guildId", "awardedXp">>])
      [] endpoint \in {"getGuildXpLeaderboard", "getGuildXpRoleRewards",
                       "getGuildXpCurrencyRewards"} ->
            success([keys |-> <<"guildId", "startPosition", "items">>])
      [] endpoint = "getTransactions" ->
            success([keys |-> <<"userId", "startPosition", "items">>])
      [] endpoint = "getGlobalXpLeaderboard" ->
            success([keys |-> <<"startPosition", "items">>])
      [] OTHER -> failure(EmptyObject)

\* checkProperties letting a name without a schema through.
checkPropertiesNoSchemaPasses(obj, endpoint) ==
    LET keys == DOMAIN obj
        required == getRequiredKeys(endpoint)
    IN  IF "keys" \notin DOMAIN required
        THEN [defined |-> TRUE, value |-> success(obj)]
        ELSE IF \A i \in 1..Len(required.keys) : required.keys[i] \in keys
             THEN [defined |-> TRUE, value |-> success(obj)]
             ELSE [defined |-> FALSE, value |-> EmptyObject]

\* checkProperties returning the required parameters only.
checkPropertiesStripping(obj, endpoint) ==
    LET keys == DOMAIN obj
        required == getRequiredKeys(endpoint)
    IN  IF "keys" \notin DOMAIN required
        THEN [defined |-> TRUE,
              value |-> failure([error |-> "Invalid properties specified."])]
        ELSE IF \A i \in 1..Len(required.keys) : required.keys[i] \in keys
             THEN [defined |-> TRUE,
                   value |-> success([k \in {required.keys[i] :
                                              i \in 1..Len(required.keys)}
                                      |-> obj[k]])]
             ELSE [defined |-> FALSE, value |-> EmptyObject]

\* utils.checkProperties(obj, endpoint): what the call returns.  defined =
\* FALSE is the function ending without a return statement: the caller gets
\* undefined.  With no schema, `.keys` is undefined, `requiredKeys.every`
\* throws and the catch returns the failure.
checkProperties(obj, endpoint) ==
    LET keys == DOMAIN obj
        required == getRequiredKeys(endpoint)
    IN  IF "keys" \notin DOMAIN required
        THEN [defined |-> TRUE,
              value |-> failure([error |-> "Invalid properties specified."])]
        ELSE IF \A i \in 1..Len(required.keys) : required.keys[i] \in keys
             THEN [defined |-> TRUE, value |-> success(obj)]
             ELSE [defined |-> FALSE, value |-> EmptyObject]

\* ---------------------------------------------------------- handleEndpoint
\* The message of the TypeError `data.success` throws when data is undefined.
UndefinedDataError == "Cannot read property 'success' of undefined"

\* A handleEndpoint call that has not been made.  calls lists, in order, the
\* collaborators the call has invoked; info is what the accessor answered.
IdleRequest ==
    [pc |-> "idle", query |-> EmptyObject, endpoint |-> "", auth |-> IdleCheck,
     data |-> [defined |-> FALSE, value |-> EmptyObject], calls |-> <<>>,
     info |-> [threw |-> FALSE, info |-> EmptyObject],
     result |-> EmptyObject]

\* handleEndpoint without the test for the authKey: the validator is called
\* with whatever the query holds, a missing key being no ciphertext.
handleEndpointCallNoKeyTest(query, endpoint, file) ==
    [IdleRequest EXCEPT
        !.pc = "awaitAuth", !.query = query, !.endpoint = endpoint,
        !.auth = checkAuthKeyCall(IF "authKey" \in DOMAIN query
                                  THEN query["authKey"] ELSE Garbage,
                                  endpoint, undefined, file),
        !.calls = <<"checkAuthKey">>]

\* handleEndpoint(query, endpoint) up to `await authm.checkAuthKey(...)`; the
\* validator is called with two arguments, its guildId is undefined.
handleEndpointCall(query, endpoint, file) ==
    IF "authKey" \notin DOMAIN query
    THEN [IdleRequest EXCEPT
            !.pc = "done", !.query = query, !.endpoint = endpoint,
            !.result = failure([error |-> "No Authentication key specified."])]
    ELSE [IdleRequest EXCEPT
            !.pc = "awaitAuth", !.query = query, !.endpoint = endpoint,
            !.auth = checkAuthKeyCall(query["authKey"], endpoint, undefined, file),
            !.calls = <<"checkAuthKey">>]

\* handleEndpoint going on to checkProperties whatever the validator answered.
handleEndpointValidateUngated(r) ==
    LET data == checkProperties(r.query, r.endpoint)
        called == Append(r.calls, "checkProperties")
    IN  IF ~data.defined
        THEN [r EXCEPT !.pc = "done", !.data = data, !.calls = called,
                       !.result = failure([error |-> UndefinedDataError])]
        ELSE IF ~data.value.success
             THEN [r EXCEPT !.pc = "done", !.data = data, !.calls = called,
                            !.result = failure(data.value)]
             ELSE [r EXCEPT !.pc = "awaitConnector", !.data = data,
                            !.query = data.value,
                            !.calls = Append(called, "connector")]

\* ... from the validator's answer to `await connector[endpoint](data)`.
\* success(obj) marks the query object itself, so data and query are one.
handleEndpointValidate(r) ==
    IF ~r.auth.result.success
    THEN [r EXCEPT !.pc = "done", !.result = failure(r.auth.result)]
    ELSE LET data == checkProperties(r.query, r.endpoint)
             called == Append(r.calls, "checkProperties")
         IN  IF ~data.defined
             THEN [r EXCEPT !.pc = "done", !.data = data, !.calls = called,
                            !.result = failure([error |-> UndefinedDataError])]
             ELSE IF ~data.value.success
                  THEN [r EXCEPT !.pc = "done", !.data = data,
                                 !.calls = called,
                                 !.result = failure(data.value)]
                  ELSE [r EXCEPT !.pc = "awaitConnector", !.data = data,
                                 !.query = data.value,
                                 !.calls = Append(called, "connector")]

\* What the accessor's operation can answer: a result marked as a success, a
\* result record as it is (what Connector.getBalance of connectorRewrite.js
\* returns), a failure record with or without a message of its own, or a
\* rejection.
ConnectorOutcomes == {"result", "record", "failure", "bare", "throw"}

connectorCall(endpoint, data, outcome) ==
    CASE outcome = "result" ->
            [threw |-> FALSE, info |-> success([balance |-> "100"])]
      [] outcome = "record" ->
            [threw |-> FALSE, info |-> [userId |-> "42", balance |-> "100"]]
      [] outcome = "failure" ->
            [threw |-> FALSE, info |-> failure([error |-> "User not found."])]
      [] outcome = "bare" ->
            [threw |-> FALSE, info |-> [success |-> FALSE]]
      [] OTHER ->
            [threw |-> TRUE, info |-> [message |-> "SQLITE_ERROR: no such table"]]

\* ... from the accessor's answer to the return; `!info.success` holds of a
\* record that has no success property.
handleEndpointFinish(r, answer) ==
    IF answer.threw
    THEN [r EXCEPT !.pc = "done", !.info = answer,
                   !.result = failure([error |-> answer.info.message])]
    ELSE IF ~("success" \in DOMAIN answer.info /\ answer.info["success"])
         THEN [r EXCEPT !.pc = "done", !.info = answer,
                        !.result = failure(answer.info)]
         ELSE [r EXCEPT !.pc = "done", !.info = answer,
                        !.result = success(answer.info)]

\* ------------------------------------- connectorRewrite.js: class Connector
\* String.prototype.toLowerCase, on the endpoint names of the model.
toLowerCase(str) ==
    CASE str \in {"getBotInfo", "GETBOTINFO"} -> "getbotinfo"
      [] str \in {"getBalance", "GETBALANCE"} -> "getbalance"
      [] str \in {"getGuildRank", "GETGUILDRANK"} -> "getguildrank"
      [] str \in {"getGuildXp", "GETGUILDXP"} -> "getguildxp"
      [] str = "getTables" -> "gettables"
      [] str = "getFields" -> "getfields"
      [] str = "execSql" -> "execsql"
      [] str = "setBalance" -> "setbalance"
      [] str = "createTransaction" -> "createtransaction"
      [] str = "getTransactions" -> "gettransactions"
      [] str = "getGlobalRank" -> "getglobalrank"
      [] str = "setGuildXp" -> "setguildxp"
      [] OTHER -> str

\* this._endpoints, as the constructor sets it.
ConnectorEndpoints ==
    <<"getBotInfo", "getTables", "getFields", "execSql", "getBalance",
      "setBalance", "createTransaction", "getTransactions", "getGuildRank",
      "getGlobalRank", "getGuildXp", "setGuildXp">>

\* new Connector(dbPath, credentialsPath, disabledEndpoints): the fields the
\* gate reads.
Connector(disabledEndpoints) ==
    [_init |-> FALSE,
     _disabledEndpoints |-> IF disabledEndpoints = undefined THEN <<>>
                            ELSE disabledEndpoints]

\* get endpoints(): the names of _endpoints the disabled list does not
\* include.
endpoints(c) ==
    LET enabled(element) == ~includes(c._disabledEndpoints, element)
    IN  SelectSeq(ConnectorEndpoints, enabled)

\* checkInitialized(): whether it throws.
NotInitializedError ==
    "Connector not initialized. This may lead to unexpected errors."
checkInitializedThrows(c) == ~c._init

\* checkEndpoint without the test of the disabled list.
checkEndpointThrowsNever(c, endpoint) == FALSE

\* checkEndpoint(endpoint) after `await this.checkInitialized()`: whether it
\* throws "Endpoint disabled.".
checkEndpointThrows(c, endpoint) ==
    \E i \in 1..Len(c._disabledEndpoints) :
        toLowerCase(c._disabledEndpoints[i]) = toLowerCase(endpoint)

\* The statements initialize() awaits one after the other.
Pragmas ==
    <<"PRAGMA journal_mode=OFF", "PRAGMA locking_mode=NORMAL",
      "PRAGMA synchronous=OFF", "PRAGMA optimize">>

\* An initialize() call that has not been made; done counts the statements
\* that have been answered.
IdleSetup == [pc |-> "idle", done |-> 0]

\* What an endpoint method does after its gate, in order: database
\* statements, each with the error the method throws when the statement
\* yields nothing (undefined where the method does not look), and calls of
\* other endpoint methods, which start with the gate of their own name.
Statement(from, error) == [kind |-> "db", from |-> from, error |-> error]
Gate(name) == [kind |-> "gate", from |-> name, error |-> undefined]
checkIfUserExists == Statement("GuildConfigs.UserId", "User not found.")
checkIfGuildExists == Statement("GuildConfigs.GuildId", "Guild not found.")

Body(endpoint) ==
    CASE endpoint = "getBotInfo" ->
            <<Statement("BotConfig", "Unable to fetch bot configuration.")>>
      [] endpoint = "getBalance" ->
            <<checkIfUserExists, Statement("DiscordUser", undefined)>>
      [] endpoint = "getGuildRank" ->
            <<checkIfUserExists, checkIfGuildExists,
              Statement("UserXpStats", undefined)>>
      [] endpoint = "getGuildXp" ->
            <<checkIfUserExists, checkIfGuildExists,
              Statement("UserXpStats", "Unable to find the user/guild."),
              Gate("getGuildRank"),
              checkIfUserExists, checkIfGuildExists,
              Statement("UserXpStats", undefined)>>

\* What the database answers to a statement: rows, no row, or an error.
DbOutcomes == {"rows", "none", "reject"}
SqlError == "SQLITE_ERROR: no such table"

\* What a method returns after its last statement was answered.
Return(endpoint, outcome) ==
    CASE endpoint = "getBotInfo" ->
            [defined |-> TRUE, value |-> [bot |-> "info"]]
      [] endpoint = "getBalance" ->
            IF outcome = "rows"
            THEN [defined |-> TRUE,
                  value |-> [userId |-> "42", balance |-> "100"]]
            ELSE [defined |-> FALSE, value |-> EmptyObject]
      [] endpoint = "getGuildRank" ->
            [defined |-> TRUE, value |-> [userId |-> "42", rank |-> "1"]]
      [] endpoint = "getGuildXp" ->
            [defined |-> TRUE,
             value |-> [guildXp |-> "36", awardedXp |-> "0", totalXp |-> "36",
                        level |-> "1", levelXp |-> undefined,
                        requiredXp |-> undefined, rank |-> "1"]]

\* A call of an endpoint method that has not been made.  gate is the name
\* checkEndpoint is testing, step the place in Body, stmts the number of
\* statements the call has issued.  History: early, a statement was issued
\* while initialize() had not finished; atCall, where initialize() was when
\* the method was called; listed, the method's name was in the disabled list
\* when its gate read the list; gated, its gate has let the call through.
IdleOp ==
    [pc |-> "idle", endpoint |-> "", gate |-> "", step |-> 0, stmts |-> 0,
     early |-> FALSE, atCall |-> "idle", listed |-> FALSE, gated |-> FALSE,
     threw |-> FALSE, message |-> "",
     result |-> [defined |-> FALSE, value |-> EmptyObject]]

\* The method rejects with an Error of the given message.
Throw(o, message) ==
    [o EXCEPT !.pc = "done", !.threw = TRUE, !.message = message]

\* `await this.checkEndpoint(name)` up to the await in checkEndpoint:
\* checkInitialized() runs at once and reads _init.
endpointCall(endpoint, c, s) ==
    LET o == [IdleOp EXCEPT !.endpoint = endpoint, !.gate = endpoint,
                            !.atCall = s.pc]
    IN  IF checkInitializedThrows(c) THEN Throw(o, NotInitializedError)
        ELSE [o EXCEPT !.pc = "checkEndpoint"]

\* The method awaiting its next database statement.
Issue(o, s) ==
    [o EXCEPT !.pc = "awaitDb", !.step = @ + 1, !.stmts = @ + 1,
              !.early = @ \/ s.pc # "done"]

\* checkEndpoint resumed: the test of the disabled list; when it passes the
\* method goes on to its next statement.
endpointResume(o, c, s) ==
    LET own == o.gate = o.endpoint
        n == [o EXCEPT !.listed = IF own
                                  THEN includes(c._disabledEndpoints, o.endpoint)
                                  ELSE @]
    IN  IF checkEndpointThrows(c, o.gate) THEN Throw(n, "Endpoint disabled.")
        ELSE Issue([n EXCEPT !.gated = TRUE], s)

\* The method resumed with the answer of the statement it awaited.
endpointAnswer(o, c, s, outcome) ==
    LET body == Body(o.endpoint)
        st == body[o.step]
    IN  IF outcome = "reject" THEN Throw(o, SqlError)
        ELSE IF outcome = "none" /\ st.error # undefined
             THEN Throw(o, st.error)
        ELSE IF o.step = Len(body)
             THEN [o EXCEPT !.pc = "done",
                            !.result = Return(o.endpoint, outcome)]
        ELSE IF body[o.step + 1].kind = "gate"
             THEN IF checkInitializedThrows(c)
                  THEN Throw(o, NotInitializedError)
                  ELSE [o EXCEPT !.pc = "checkEndpoint", !.step = @ + 1,
                                 !.gate = body[o.step + 1].from]
        ELSE Issue(o, s)

\* ------------------------------------------------------------ the inputs
Issuers == {1, 2}

\* The (userId, guildId, endpoints) an administrator issues credentials for.
IssueArgs ==
    { [userId |-> "42", guildId |-> "7", endpoints |-> <<"getBalance">>],
      [userId |-> "43", guildId |-> undefined,
       endpoints |-> <<"createTransaction", "doesNotExist">>] }

\* The operation names and guilds a caller asks for.
Endpoints == {"getBalance", "createTransaction"}
GuildIds == {"7", "9"}

\* The requests a caller sends: the endpoint of the route, and the parameters
\* of the query besides its authKey.
Requests ==
    { [endpoint |-> "getBalance",
       params |-> [userId |-> "42", guildId |-> "9"]],
      [endpoint |-> "createTransaction",
       params |-> [userId |-> "43", amount |-> "5", reason |-> "gift",
                   note |-> "x"]],
      [endpoint |-> "createTransaction",
       params |-> [userId |-> "43", amount |-> "5"]],
      [endpoint |-> "doesNotExist",
       params |-> [userId |-> "43", amount |-> "5"]] }

\* The strings utils.addAuthKey is called with from outside createAuthKey:
\* ciphertexts of the configured password.
StoreKeys ==
    { encrypt(stringify(a.userId, a.guildId, a.endpoints), iv) :
        a \in IssueArgs, iv \in 1..MaxKeys }

\* The endpoint methods a caller of the Connector invokes, and the lists of
\* disabled endpoints it is constructed with or given.
EndpointNames == {"getBotInfo", "getBalance", "getGuildRank", "getGuildXp"}
DisabledLists ==
    { <<>>, <<"getBalance">>, <<"GETBALANCE">>, <<"getGuildRank">>,
      <<"getBotInfo", "getBalance">> }

\* ------------------------------------------------------------- the state
VARIABLES
    keysFile,   \* keys.json: whether it exists, and the list it holds
    ivCount,    \* number of IVs cryptr.encrypt has drawn
    iss,        \* the createAuthKey calls, one per issuer
    delResult,  \* what the last deleteAuthKeys call returned
    issued,     \* history: the credentials createAuthKey has returned
    revoked,    \* history: those returned before a deleteAuthKeys that succeeded
    chk,        \* a direct checkAuthKey call
    chkNote,    \* history: what held of chk.key when the call was made
    req,        \* a handleEndpoint call
    reqNote,    \* history: what held of req.query at the call
    storeCall,  \* the last utils.addAuthKey call made from outside createAuthKey
    connector,  \* the Connector instance: _init and _disabledEndpoints
    setup,      \* the initialize() call of the instance
    op,         \* a call of an endpoint method of the instance
    advertised, \* the last read of the `endpoints` getter of the instance
    levelInfo   \* the last utils.calcLevel call: its argument and result

issuance == <<keysFile, ivCount, iss, delResult, issued, revoked>>
\* The state of authmanager.js and utils.js, and the state of the Connector.
pipeline == <<issuance, chk, chkNote, req, reqNote>>
instance == <<connector, setup, op>>
vars == <<keysFile, ivCount, iss, delResult, issued, revoked, chk, chkNote,
          req, reqNote, storeCall, connector, setup, op, advertised,
          levelInfo>>

\* What holds of a credential when a call presents it: it was returned by
\* createAuthKey, it was so before a clearing of the store, it is in the store.
Note(key) ==
    [issued |-> key \in issued, revoked |-> key \in revoked,
     stored |-> keysFile.exists /\ includes(keysFile.keys, key)]

NoNote == [issued |-> FALSE, revoked |-> FALSE, stored |-> FALSE]

\* What holds of a request when handleEndpoint is called: the note of its
\* authKey, and the query object as the caller built it.
RequestNote(query) ==
    [key |-> IF "authKey" \in DOMAIN query THEN Note(query["authKey"])
             ELSE NoNote,
     query |-> query]

\* A createAuthKey call that has not been made.
IdleIssue ==
    [pc |-> "idle", authKey |-> Garbage, added |-> EmptyObject,
     result |-> EmptyObject]

\* A direct utils.addAuthKey call that has not been made.  present: the key
\* was in the store at the call; before, after: keys.json around the call.
NoStoreCall ==
    [key |-> Garbage, present |-> FALSE,
     before |-> [exists |-> FALSE, keys |-> <<>>],
     after |-> [exists |-> FALSE, keys |-> <<>>], result |-> EmptyObject]

\* A calcLevel call that has not been made.
NoLevelCall == [called |-> FALSE, xp |-> 0, result |-> EmptyObject]

\* The `endpoints` getter not yet read.  list is the disabled list at the
\* read, value what the getter returned.
NoRead == [read |-> FALSE, list |-> <<>>, value |-> <<>>]

\* The Connector as one of `connectors` constructed, nothing called on it.
InitInstance(connectors) ==
    /\ connector \in connectors
    /\ setup = IdleSetup
    /\ op = IdleOp
    /\ advertised = NoRead

\* keys.json is not part of the repository: the first addAuthKey or
\* deleteAuthKeys creates it, or the operator has put an empty list there.
InitPipeline ==
    /\ keysFile \in { [exists |-> FALSE, keys |-> <<>>],
                      [exists |-> TRUE, keys |-> <<>>] }
    /\ ivCount = 0
    /\ iss = [i \in Issuers |-> IdleIssue]
    /\ delResult = EmptyObject
    /\ issued = {}
    /\ revoked = {}
    /\ chk = IdleCheck
    /\ chkNote = NoNote
    /\ req = IdleRequest
    /\ reqNote = [key |-> NoNote, query |-> EmptyObject]
    /\ storeCall = NoStoreCall
    /\ levelInfo = NoLevelCall

Init == InitPipeline /\ InitInstance({Connector(undefined)})

\* The Connector constructed with any of the lists, keys.json not yet there.
InitConnector ==
    /\ InitPipeline
    /\ ~keysFile.exists
    /\ InitInstance({Connector(l) : l \in DisabledLists})

\* ---------------------------------------------------------- createAuthKey
\* createAuthKey(userId, guildId, endpoints) up to `await cryptr.encrypt(data)`.
\* A new call takes the first issuer that has no call in flight.
createAuthKeyCall(i, a) ==
    /\ iss[i].pc \in {"idle", "done"}
    /\ \A j \in Issuers : j < i => iss[j].pc \notin {"idle", "done"}
    /\ ivCount < MaxKeys
    /\ ivCount' = ivCount + 1
    /\ iss' = [iss EXCEPT ![i] =
                 [IdleIssue EXCEPT
                    !.pc = "encrypted",
                    !.authKey = encrypt(stringify(a.userId, a.guildId, a.endpoints),
                                        ivCount + 1)]]
    /\ UNCHANGED <<keysFile, delResult, issued, revoked, chk, chkNote, req,
                   reqNote, storeCall, instance,
                   advertised, levelInfo>>

\* ... `await utils.addAuthKey(authKey)`: the call is synchronous, and what it
\* returns is awaited and dropped.
createAuthKeyAdd(i, okay) ==
    /\ iss[i].pc = "encrypted"
    /\ LET r == addAuthKey(iss[i].authKey, keysFile, okay)
       IN  /\ keysFile' = r.file
           /\ iss' = [iss EXCEPT ![i].pc = "added", ![i].added = r.result]
    /\ UNCHANGED <<ivCount, delResult, issued, revoked, chk, chkNote, req,
                   reqNote, storeCall, instance,
                   advertised, levelInfo>>

\* ... `return utils.success({ authKey: authKey })`.
createAuthKeyResult(c) == success([authKey |-> c.authKey])

createAuthKeyReturn(i) ==
    /\ iss[i].pc = "added"
    /\ iss' = [iss EXCEPT ![i].pc = "done", ![i].authKey = Garbage,
                          ![i].result = createAuthKeyResult(iss[i])]
    /\ issued' = IF createAuthKeyResult(iss[i]).success
                 THEN issued \cup {createAuthKeyResult(iss[i]).authKey}
                 ELSE issued
    /\ UNCHANGED <<keysFile, ivCount, delResult, revoked, chk, chkNote, req,
                   reqNote, storeCall, instance,
                   advertised, levelInfo>>

\* --------------------------------------------------------- deleteAuthKeys
deleteAuthKeys(okay) ==
    /\ keysFile' = deleteAuthKeysFile(keysFile, okay)
    /\ delResult' = IF okay THEN success(EmptyObject)
                    ELSE failure([error |-> WriteError])
    /\ revoked' = IF okay THEN issued ELSE revoked
    /\ UNCHANGED <<ivCount, iss, issued, chk, chkNote, req, reqNote, storeCall,
                   instance,
                   advertised, levelInfo>>

\* ------------------------------------------------- checkAuthKey, directly
\* The strings a caller can present: the credentials handed out, and garbage.
Presentable == issued \cup {Garbage}

checkAuthKeyStart(key, endpoint, guildId) ==
    /\ chk.pc \in {"idle", "done"}
    /\ chk' = checkAuthKeyCall(key, endpoint, guildId, keysFile)
    /\ chkNote' = Note(key)
    /\ UNCHANGED <<issuance, req, reqNote, storeCall, instance,
                   advertised, levelInfo>>

checkAuthKeyStep ==
    /\ chk.pc \in {"awaitKeys", "awaitParse"}
    /\ chk' = checkAuthKeyResume(chk)
    /\ UNCHANGED <<issuance, chkNote, req, reqNote, storeCall, instance,
                   advertised, levelInfo>>

\* -------------------------------------------------- handleEndpoint, steps
\* The query of a request: its parameters, with or without an authKey.
Queries(params) ==
    {params} \cup {("authKey" :> k) @@ params : k \in Presentable}

handleEndpointStart(query, endpoint) ==
    /\ req.pc \in {"idle", "done"}
    /\ req' = handleEndpointCall(query, endpoint, keysFile)
    /\ reqNote' = RequestNote(query)
    /\ UNCHANGED <<issuance, chk, chkNote, storeCall, instance,
                   advertised, levelInfo>>

\* The validator called by handleEndpoint, from one await to the next.
handleEndpointAuthStep ==
    /\ req.pc = "awaitAuth"
    /\ req.auth.pc \in {"awaitKeys", "awaitParse"}
    /\ req' = [req EXCEPT !.auth = checkAuthKeyResume(req.auth)]
    /\ UNCHANGED <<issuance, chk, chkNote, reqNote, storeCall, instance,
                   advertised, levelInfo>>

handleEndpointAuthDone ==
    /\ req.pc = "awaitAuth"
    /\ req.auth.pc = "done"
    /\ req' = handleEndpointValidate(req)
    /\ UNCHANGED <<issuance, chk, chkNote, reqNote, storeCall, instance,
                   advertised, levelInfo>>

handleEndpointConnectorDone(outcome) ==
    /\ req.pc = "awaitConnector"
    /\ req' = handleEndpointFinish(req,
                 connectorCall(req.endpoint, req.data.value, outcome))
    /\ UNCHANGED <<issuance, chk, chkNote, reqNote, storeCall, instance,
                   advertised, levelInfo>>

\* ------------------------------------------- utils.addAuthKey, directly
\* utils.addAuthKey(key) called by a user of the module, not by createAuthKey.
addAuthKeyDirect(key, okay) ==
    /\ LET r == addAuthKey(key, keysFile, okay)
       IN  /\ keysFile' = r.file
           /\ storeCall' = [key |-> key, present |-> Note(key).stored,
                            before |-> keysFile, after |-> r.file,
                            result |-> r.result]
    /\ UNCHANGED <<ivCount, iss, delResult, issued, revoked, chk, chkNote, req,
                   reqNote, instance,
                   advertised, levelInfo>>

\* ------------------------------------------------------- Connector, steps
\* initialize(): `this._init = true`, then the first PRAGMA is awaited.
initialize ==
    /\ setup.pc = "idle"
    /\ connector' = [connector EXCEPT !._init = TRUE]
    /\ setup' = [setup EXCEPT !.pc = "pragma"]
    /\ UNCHANGED <<pipeline, storeCall, op,
                   advertised, levelInfo>>

\* initialize() resumed with the answer to the PRAGMA it awaits: it awaits
\* the next one, returns after the last, or rejects when the statement failed.
initializeStep(okay) ==
    /\ setup.pc = "pragma"
    /\ setup' = IF ~okay THEN [setup EXCEPT !.pc = "failed"]
                ELSE IF setup.done + 1 = Len(Pragmas)
                     THEN [pc |-> "done", done |-> setup.done + 1]
                     ELSE [setup EXCEPT !.done = @ + 1]
    /\ UNCHANGED <<pipeline, storeCall, connector, op,
                   advertised, levelInfo>>

\* set disabledEndpoints(disabledEndpoints).
setDisabledEndpoints(disabledEndpoints) ==
    /\ connector' = [connector EXCEPT !._disabledEndpoints = disabledEndpoints]
    /\ UNCHANGED <<pipeline, storeCall, setup, op,
                   advertised, levelInfo>>

\* connector.endpoints is read.
getEndpoints ==
    /\ advertised' = [read |-> TRUE, list |-> connector._disabledEndpoints,
                      value |-> endpoints(connector)]
    /\ UNCHANGED <<pipeline, storeCall, connector, setup, op, levelInfo>>

\* An endpoint method is called.
endpointStart(endpoint) ==
    /\ op.pc \in {"idle", "done"}
    /\ op' = endpointCall(endpoint, connector, setup)
    /\ UNCHANGED <<pipeline, storeCall, connector, setup,
                   advertised, levelInfo>>

\* checkEndpoint goes on after its await.
endpointGateStep ==
    /\ op.pc = "checkEndpoint"
    /\ op' = endpointResume(op, connector, setup)
    /\ UNCHANGED <<pipeline, storeCall, connector, setup,
                   advertised, levelInfo>>

\* The database answers the statement the method awaits.
endpointDbStep(outcome) ==
    /\ op.pc = "awaitDb"
    /\ op' = endpointAnswer(op, connector, setup, outcome)
    /\ UNCHANGED <<pipeline, storeCall, connector, setup,
                   advertised, levelInfo>>

\* --------------------------------------------------------------- calcLevel
\* utils.calcLevel(xp) is called.
calcLevelCall(xp) ==
    /\ levelInfo' = [called |-> TRUE, xp |-> xp, result |-> calcLevel(xp)]
    /\ UNCHANGED <<pipeline, storeCall, instance, advertised>>

\* ------------------------------------------------------ the specifications
NextIssue ==
    \/ \E i \in Issuers, a \in IssueArgs : createAuthKeyCall(i, a)
    \/ \E i \in Issuers, okay \in BOOLEAN : createAuthKeyAdd(i, okay)
    \/ \E i \in Issuers : createAuthKeyReturn(i)
    \/ \E okay \in BOOLEAN : deleteAuthKeys(okay)

NextCheck ==
    \/ \E key \in Presentable, endpoint \in Endpoints,
          guildId \in GuildIds \cup {undefined} :
          checkAuthKeyStart(key, endpoint, guildId)
    \/ checkAuthKeyStep

NextEndpoint ==
    \/ \E r \in Requests : \E query \in Queries(r.params) :
          handleEndpointStart(query, r.endpoint)
    \/ handleEndpointAuthStep
    \/ handleEndpointAuthDone
    \/ \E outcome \in ConnectorOutcomes : handleEndpointConnectorDone(outcome)

\* Callers of checkAuthKey and callers of handleEndpoint share nothing but
\* keys.json, which neither writes: each is run against the writers of the
\* store in a specification of its own.
\* Issuance and revocation, with callers of checkAuthKey.
Spec == Init /\ [][NextIssue \/ NextCheck]_vars

\* Issuance and revocation, with callers of handleEndpoint.
SpecEndpoint == Init /\ [][NextIssue \/ NextEndpoint]_vars

\* The store under its own operations, called with any key in any order.
NextStore ==
    \/ \E key \in StoreKeys, okay \in BOOLEAN : addAuthKeyDirect(key, okay)
    \/ \E okay \in BOOLEAN : deleteAuthKeys(okay)

SpecStore == Init /\ [][NextStore]_vars

\* A Connector instance: initialize(), the setter of the disabled list and
\* the endpoint methods, interleaved at their awaits.
NextConnector ==
    \/ initialize
    \/ \E okay \in BOOLEAN : initializeStep(okay)
    \/ \E l \in DisabledLists : setDisabledEndpoints(l)
    \/ getEndpoints
    \/ \E endpoint \in EndpointNames : endpointStart(endpoint)
    \/ endpointGateStep
    \/ \E outcome \in DbOutcomes : endpointDbStep(outcome)

SpecConnector == InitConnector /\ [][NextConnector]_vars

\* calcLevel called with any xp up to MaxXp.
NextLevel == \E xp \in 0..MaxXp : calcLevelCall(xp)

SpecLevel == Init /\ [][NextLevel]_vars

\* ------------------------------------------------------------- the claims
\* The payload a credential decrypts to.
PayloadOf(key) == parse(decrypt(key))

\* The direct checkAuthKey call has returned, for a well-formed credential.
Checked == chk.pc = "done" /\ ~decryptThrows(chk.key)

\* The operation asked of the direct call is one the credential allows.
CheckedAllowed == includes(PayloadOf(chk.key).endpoints, chk.endpoint)

\* C1: a credential returned by createAuthKey and not revoked since, validated
\* with no guildId for an operation of its endpoints, validates successfully.
C1_IssueThenValidate ==
    (Checked /\ chkNote.issued /\ ~chkNote.revoked
        /\ chk.guildId = undefined /\ CheckedAllowed)
    => chk.result.success

\* C2: checkAuthKey on a string that is not in the store fails with
\* "Invalid key.", in every state of the store.
C2_UnknownCredential ==
    (chk.pc = "done" /\ ~chkNote.stored)
    => (~chk.result.success /\ chk.result.error = "Invalid key.")

\* C3: once deleteAuthKeys has cleared the store, checkAuthKey on a credential
\* issued before the clearing fails with "Invalid key.".
C3_ClearAllRevokes ==
    (chk.pc = "done" /\ chkNote.revoked)
    => (~chk.result.success /\ chk.result.error = "Invalid key.")

\* A credential that was issued and stored is validated after the clearing.
C3_Witness ==
    /\ Checked /\ chkNote.revoked /\ CheckedAllowed
    /\ delResult = success(EmptyObject)
    /\ chk.result = failure([error |-> "Invalid key."])

\* C4: createAuthKey returns a credential only when addAuthKey wrote it to the
\* store; a failed write is reported, not answered with a credential.
C4_NoCredentialOnWriteFailure ==
    \A i \in Issuers :
        (iss[i].pc = "done" /\ iss[i].result.success)
        => iss[i].added.success

\* C5: handleEndpoint calls the accessor only after checkAuthKey and then
\* checkProperties have succeeded; a failed checkAuthKey ends the call with
\* nothing else called, a failed checkProperties with no accessor call.
C5_ValidatorsBeforeAccessor ==
    /\ includes(req.calls, "connector")
       => /\ req.calls = <<"checkAuthKey", "checkProperties", "connector">>
          /\ req.auth.pc = "done" /\ req.auth.result.success
          /\ req.data.defined /\ req.data.value.success
    /\ (req.auth.pc = "done" /\ ~req.auth.result.success
            /\ req.pc \in {"awaitConnector", "done"})
       => req.calls = <<"checkAuthKey">>
    /\ (includes(req.calls, "checkProperties")
            /\ ~(req.data.defined /\ req.data.value.success))
       => (req.pc = "done" /\ ~includes(req.calls, "connector"))

\* The accessor has been called, both validators having answered before it.
C5_Witness ==
    /\ req.pc = "done"
    /\ req.calls = <<"checkAuthKey", "checkProperties", "connector">>
    /\ req.result.success

\* C6: a request carrying a guildId other than the guildId of its credential
\* never reaches the accessor, and is answered "Guild not allowed by this key.".
C6_TenantForwarded ==
    (/\ req.pc \in {"awaitConnector", "done"}
     /\ "authKey" \in DOMAIN req.query /\ "guildId" \in DOMAIN req.query
     /\ reqNote.key.stored
     /\ includes(PayloadOf(req.query["authKey"]).endpoints, req.endpoint)
     /\ Prop(PayloadOf(req.query["authKey"]), "guildId") # undefined
     /\ Prop(PayloadOf(req.query["authKey"]), "guildId") # req.query["guildId"])
    => /\ ~includes(req.calls, "connector")
       /\ req.pc = "done"
       /\ ~req.result.success
       /\ req.result.error = "Guild not allowed by this key."

\* C7: a stored credential whose payload has no guildId validates for an
\* operation of its endpoints whatever guildId the caller passes.
C7_NoTenantUnrestricted ==
    (Checked /\ chkNote.stored /\ CheckedAllowed
        /\ Prop(PayloadOf(chk.key), "guildId") = undefined)
    => chk.result.success

\* C8: a stored credential issued with a guildId, validated for an operation
\* of its endpoints with a guildId, validates when the two are equal and
\* fails with "Guild not allowed by this key." when they differ.
C8_TenantCheck ==
    (Checked /\ chkNote.stored /\ CheckedAllowed
        /\ Prop(PayloadOf(chk.key), "guildId") # undefined
        /\ chk.guildId # undefined)
    => IF chk.guildId = Prop(PayloadOf(chk.key), "guildId")
       THEN chk.result.success
       ELSE ~chk.result.success
            /\ chk.result.error = "Guild not allowed by this key."

\* A credential of guild 7 has been refused for guild 9.
C8_Witness ==
    /\ Checked /\ chkNote.stored /\ CheckedAllowed
    /\ Prop(PayloadOf(chk.key), "guildId") = "7"
    /\ chk.guildId = "9"
    /\ chk.result = failure([error |-> "Guild not allowed by this key."])

AllRequiredPresent ==
    \A i \in 1..Len(getRequiredKeys(req.endpoint).keys) :
        getRequiredKeys(req.endpoint).keys[i] \in DOMAIN req.query

\* C10: for an endpoint that has a schema, checkProperties succeeds exactly
\* when every required parameter is a key of the query, and otherwise returns
\* a failure whose error handleEndpoint reports.
C10_MissingParameterReported ==
    (/\ req.pc \in {"awaitConnector", "done"}
     /\ includes(req.calls, "checkProperties")
     /\ "keys" \in DOMAIN getRequiredKeys(req.endpoint))
    => /\ AllRequiredPresent <=> (req.data.defined /\ req.data.value.success)
       /\ ~AllRequiredPresent
          => /\ req.data.defined
             /\ ~req.data.value.success
             /\ req.pc = "done"
             /\ req.result.error = req.data.value.error

\* The request is for a name getRequiredKeys has no case for.
UnknownOperation == req.pc # "idle" /\ req.endpoint = "doesNotExist"

\* C11, as claimed, for a request that carries no authKey: a request for a
\* name without a schema fails with "Invalid properties specified.", the
\* failure checkProperties gives for such a name.
C11_IndependentOfCredential ==
    (UnknownOperation /\ req.pc = "done" /\ "authKey" \notin DOMAIN req.query)
    => (~req.result.success
        /\ req.result.error = "Invalid properties specified.")

\* C11, amended: a request for a name without a schema never reaches the
\* accessor and always fails; it fails with "Invalid properties specified."
\* when checkAuthKey let its credential through, and with the error of the
\* credential check when it carries no authKey or checkAuthKey refused it.
C11_UnknownOperationRejected ==
    UnknownOperation
    => /\ ~includes(req.calls, "connector")
       /\ req.pc # "awaitConnector"
       /\ req.pc = "done"
          => /\ ~req.result.success
             /\ "authKey" \notin DOMAIN req.query
                => req.result.error = "No Authentication key specified."
             /\ ("authKey" \in DOMAIN req.query /\ ~req.auth.result.success)
                => req.result.error = req.auth.result.error
             /\ ("authKey" \in DOMAIN req.query /\ req.auth.result.success)
                => req.result.error = "Invalid properties specified."

\* A credential that allows the name is presented, and the request is
\* refused by checkProperties.
C11_Witness ==
    /\ UnknownOperation /\ req.pc = "done"
    /\ req.auth.pc = "done" /\ req.auth.result.success
    /\ req.calls = <<"checkAuthKey", "checkProperties">>
    /\ req.result = failure([error |-> "Invalid properties specified."])

\* What the accessor returned is marked as a failure.
MarkedFailure(info) == "success" \in DOMAIN info /\ ~info["success"]

\* A stage of the handleEndpoint call that has returned has failed: there was
\* no authKey, checkAuthKey refused, checkProperties gave no success, or the
\* accessor rejected or answered a failure.
StageFailed ==
    \/ "authKey" \notin DOMAIN req.query
    \/ ~req.auth.result.success
    \/ /\ includes(req.calls, "checkProperties")
       /\ ~(req.data.defined /\ req.data.value.success)
    \/ /\ includes(req.calls, "connector")
       /\ (req.info.threw \/ MarkedFailure(req.info.info))

\* C12: every handleEndpoint call returns an envelope with a boolean success
\* marker; when a stage failed the envelope has success = false, and every
\* failure envelope carries a non-empty error, the generic "An error occured."
\* when the failing stage supplied none.
C12_WellFormedEnvelope ==
    /\ req.pc \in {"idle", "awaitAuth", "awaitConnector", "done"}
    /\ req.pc = "done"
       => /\ "success" \in DOMAIN req.result
          /\ req.result.success \in BOOLEAN
          /\ StageFailed => ~req.result.success
          /\ ~req.result.success
             => /\ "error" \in DOMAIN req.result
                /\ req.result.error \notin {"", undefined}
          /\ (/\ includes(req.calls, "connector") /\ ~req.info.threw
              /\ MarkedFailure(req.info.info)
              /\ "error" \notin DOMAIN req.info.info)
             => req.result.error = "An error occured."

\* The accessor answered a failure without a message, and the envelope
\* carries the generic one.
C12_Witness ==
    /\ req.pc = "done"
    /\ includes(req.calls, "connector")
    /\ req.info = [threw |-> FALSE, info |-> [success |-> FALSE]]
    /\ req.result = [success |-> FALSE, error |-> "An error occured."]

\* C13: a handleEndpoint call whose query has no authKey returns at once with
\* "No Authentication key specified.": keys.json is not read, and neither
\* checkAuthKey, checkProperties nor the accessor is called.
C13_MissingCredential ==
    (req.pc # "idle" /\ "authKey" \notin DOMAIN req.query)
    => /\ req.pc = "done"
       /\ req.result = failure([error |-> "No Authentication key specified."])
       /\ req.calls = <<>>
       /\ req.auth = IdleCheck
       /\ req.data = IdleRequest.data
       /\ req.info = IdleRequest.info

\* A request without authKey has been refused while keys.json does not exist.
C13_Witness ==
    /\ req.pc = "done" /\ req.endpoint = "getBalance"
    /\ "authKey" \notin DOMAIN req.query
    /\ ~keysFile.exists
    /\ req.result.error = "No Authentication key specified."

\* The accessor has answered the request, and its answer is a result: it
\* has not rejected, and what it returned is not marked as a failure.
AccessorSucceeded ==
    ~req.info.threw /\ ~MarkedFailure(req.info.info)

\* The error message of the accessor's failure, as handleEndpoint reads it.
AccessorError ==
    IF req.info.threw THEN req.info.info.message
    ELSE IF "error" \in DOMAIN req.info.info THEN req.info.info.error
         ELSE "An error occured."

\* C14: when the accessor was called (both validators having passed) and has
\* answered a result, handleEndpoint returns a success envelope that has every
\* field of the result; it returns a failure envelope only when the accessor
\* rejected or answered a failure, and that envelope carries the accessor's
\* error message.
C14_AccessorResultWrapped ==
    (req.pc = "done" /\ includes(req.calls, "connector"))
    => /\ AccessorSucceeded
          => /\ req.result.success
             /\ \A k \in DOMAIN req.info.info :
                    k \in DOMAIN req.result /\ req.result[k] = req.info.info[k]
       /\ ~req.result.success
          => /\ ~AccessorSucceeded
             /\ req.result.error = AccessorError

\* checkProperties has been called on the request's query and answered success.
PropertiesPassed ==
    /\ includes(req.calls, "checkProperties")
    /\ req.data.defined /\ req.data.value.success

\* C15, as claimed: what checkProperties returns on success has the keys
\* and values the query had when handleEndpoint was called, and the caller's
\* query object is as it was.
C15_PassThroughUnmodified ==
    PropertiesPassed
    => /\ req.data.value = reqNote.query
       /\ req.query = reqNote.query

\* C15, amended: on success checkProperties returns the caller's query object
\* itself with the marker success = true set on it; every other key and
\* value is as it was when handleEndpoint was called.
C15_PassThroughWithMarker ==
    PropertiesPassed
    => /\ DOMAIN req.data.value = DOMAIN reqNote.query \cup {"success"}
       /\ req.data.value["success"] = TRUE
       /\ \A k \in DOMAIN reqNote.query \ {"success"} :
              req.data.value[k] = reqNote.query[k]
       /\ req.query = req.data.value

\* A query with a parameter the schema does not ask for has passed.
C15_Witness ==
    /\ PropertiesPassed
    /\ req.endpoint = "createTransaction"
    /\ "note" \in DOMAIN reqNote.query
    /\ req.data.value["note"] = "x"
    /\ "success" \notin DOMAIN reqNote.query

\* The credentials keys.json holds.
Members == IF keysFile.exists
           THEN {keysFile.keys[i] : i \in 1..Len(keysFile.keys)} ELSE {}

\* C16: a credential in the store stays in it through every step that is not
\* a deleteAuthKeys call, the addAuthKey of other credentials included; and a
\* credential that is in the store when checkAuthKey reads it validates for
\* the operations of its endpoints (no guildId passed).
C16_MemberUntilClearAll ==
    [][ /\ (\E okay \in BOOLEAN : deleteAuthKeys(okay))
           \/ (Members \subseteq Members')
        /\ (Checked /\ chkNote.stored /\ CheckedAllowed
                /\ chk.guildId = undefined)'
           => chk'.result.success ]_vars

\* The credential issued first is still validated after a second one has
\* been added to the store.
C16_Witness ==
    /\ keysFile.exists /\ Len(keysFile.keys) = 2
    /\ Checked /\ chkNote.stored /\ CheckedAllowed
    /\ chk.key = keysFile.keys[1]
    /\ chk.guildId = undefined
    /\ chk.result.success

\* C18: when the createAuthKey calls, two of them interleaved, have all
\* returned and deleteAuthKeys has not been called, every credential they
\* returned is in the store.
C18_NoLostUpdate ==
    (/\ \A i \in Issuers : iss[i].pc = "done"
     /\ delResult = EmptyObject)
    => issued \subseteq Members

\* keys.json holds no credential twice.
NoDuplicates ==
    \A i, j \in 1..Len(keysFile.keys) :
        keysFile.keys[i] = keysFile.keys[j] => i = j

\* C17: addAuthKey called with a key that is in the store leaves the list of
\* keys.json as it was, contents and order; and the store never holds the
\* same credential twice.
C17_AddIdempotent ==
    /\ NoDuplicates
    /\ (storeCall.present /\ storeCall.result # EmptyObject)
       => storeCall.after = storeCall.before

\* A key that was in a store of two keys has been added again, with success.
C17_Witness ==
    /\ storeCall.present
    /\ storeCall.result = success(EmptyObject)
    /\ Len(storeCall.before.keys) = 2
    /\ storeCall.key = storeCall.before.keys[1]
    /\ keysFile = storeCall.before

\* C19: an endpoint method called before initialize() was called rejects
\* with the not-initialized error, and one whose name is in the disabled list
\* when its gate reads it rejects with "Endpoint disabled." (the connector
\* being initialized), in both cases with no statement issued; and no method
\* issues a statement before the gate of its own name has let it through.
C19_GateBeforeDatabase ==
    /\ (op.pc # "idle" /\ op.atCall = "idle")
       => /\ op.pc = "done" /\ op.threw
          /\ op.message = NotInitializedError
          /\ op.stmts = 0
    /\ (op.pc # "idle" /\ op.atCall # "idle" /\ op.listed)
       => /\ op.pc = "done" /\ op.threw
          /\ op.message = "Endpoint disabled."
          /\ op.stmts = 0
    /\ op.stmts > 0 => (op.gated /\ op.atCall # "idle")

\* A disabled endpoint has been refused on an initialized connector.
C19_Witness ==
    /\ op.pc = "done" /\ op.endpoint = "getBalance"
    /\ connector._init /\ op.listed
    /\ op.message = "Endpoint disabled."
    /\ op.stmts = 0

\* C20: no endpoint method issues a statement before initialize() has got
\* the answer to its last PRAGMA, and a method called while initialize() is
\* awaiting its PRAGMA statements rejects with the not-initialized error.
C20_NoQueryBeforeSetup ==
    /\ ~op.early
    /\ (op.pc = "done" /\ op.atCall = "pragma")
       => (op.threw /\ op.message = NotInitializedError)

\* C21: for the disabled list the connector had when its `endpoints` getter
\* was read (given to the constructor or set later), every name of _endpoints
\* is in what the getter returned exactly when checkEndpoint does not reject
\* it with "Endpoint disabled.".
C21_GetterAgreesWithGate ==
    advertised.read
    => \A i \in 1..Len(ConnectorEndpoints) :
          includes(advertised.value, ConnectorEndpoints[i])
          <=> ~checkEndpointThrows(
                  [connector EXCEPT !._disabledEndpoints = advertised.list],
                  ConnectorEndpoints[i])

\* The xp that completes the levels below L: the sum of 36 + 9*i, i in 0..L-1.
RECURSIVE LevelSum(_)
LevelSum(L) == IF L = 0 THEN 0 ELSE (36 + 9 * (L - 1)) + LevelSum(L - 1)

\* C22: calcLevel(xp) returns level L, currentLevelXp r and nextLevelXp g with
\* xp = r + LevelSum(L), 0 <= r < g and g = 36 + 9*L.
C22_LevelArithmetic ==
    levelInfo.called
    => LET L == levelInfo.result.level
           r == levelInfo.result.currentLevelXp
           g == levelInfo.result.nextLevelXp
       IN  /\ levelInfo.result.success
           /\ levelInfo.xp = r + LevelSum(L)
           /\ 0 <= r /\ r < g
           /\ g = 36 + 9 * L

====
